---- MODULE Spec2Model ----
(***************************************************************************)
(* Model of the two deployment workflows of the repository:                *)
(*   - EKSClusterSetup.deploy         (src/EksPythonClusterDeploy.py)      *)
(*   - the __main__ workflow          (src/Deploy_EKS_Cluster/             *)
(*                                     deploy_eks_cluster.py)              *)
(* The remote services (iam, eks, cloudwatch, autoscaling) and the         *)
(* configuration file are the environment: every remote call draws its     *)
(* result from a small set, and every call is appended to a call log.      *)
(***************************************************************************)
EXTENDS Integers, Sequences, FiniteSets, TLC

\* ------------------------------------------------------------------------
\* Bounds of the model
\* ------------------------------------------------------------------------

\* describe_cluster calls explored in one run of the (unbounded) polling loop
MaxPolls == 4

\* runs of the script (deploy() calls) for the same cluster name
MaxDeploys == 2

\* method calls a caller makes on one EKSClusterSetup instance
MaxMethodCalls == 3

\* ------------------------------------------------------------------------
\* EKSClusterSetup (src/EksPythonClusterDeploy.py)
\* ------------------------------------------------------------------------

VARIABLES
    pc,                \* position of deploy(): "deploy", "create_eks_cluster", "monitor_cluster_status", "done"
    config_file,       \* content of the file at self.config_file
    validated,         \* self.validated
    loaded,            \* what validate_config read at json.load (line 75)
    calls,             \* log of the remote calls issued, in order
    outcome,           \* what deploy() printed last: "none", "success", "permission", "failed"
    iam_role,          \* the role <cluster_name>-role at the identity service: "absent", "foreign" (there before the first run), "created" (by a run)
    attempt            \* number of the current run of the script

\* state of __main__ of src/Deploy_EKS_Cluster/deploy_eks_cluster.py
VARIABLES
    main_pc,           \* position of __main__: "load_config", "create_eks_cluster", "configure_cloudwatch", "scale_worker_nodes", "done"
    environment,       \* what input() returned, stripped
    env_config_file,   \* content of the file <environment>_config.json
    config,            \* the dict load_config returned
    warned,            \* required keys load_config issued a RuntimeWarning for
    main_calls,        \* log of the remote calls issued, in order
    main_outcome       \* "none", "completed", or "critical" (logging.critical of the except clause)

\* the methods a caller has invoked directly on the instance, in order, each
\* with the exception it raised ("none" when it returned) and the number of
\* remote calls it issued
VARIABLE history

deployVars == <<pc, config_file, validated, loaded, calls, outcome, iam_role, attempt>>

mainVars == <<main_pc, environment, env_config_file, config, warned, main_calls, main_outcome>>

\* the key names a configuration document is built from
ConfigKeys == {"vpcConfig", "nodeRoleArn", "subnets"}

\* a validate_config that forgets one of the keys
required_keys_short == {"vpcConfig", "nodeRoleArn"}

\* required_keys of validate_config
required_keys == {"vpcConfig", "nodeRoleArn", "subnets"}

\* values a vpcConfig entry can hold
VpcValues == {"vpc-a", "vpc-b"}

NoVpc == "none"

\* the JSON documents a configuration file can hold: an object with some of
\* the keys, or an array with some of the key names as elements
JsonObjects ==
    { [kind |-> "object", keys |-> ks, vpc |-> v] :
        ks \in SUBSET ConfigKeys, v \in VpcValues \cup {NoVpc} }

JsonArrays ==
    { [kind |-> "array", keys |-> ks, vpc |-> NoVpc] : ks \in SUBSET ConfigKeys }

NotJson(k) == [kind |-> k, keys |-> {}, vpc |-> NoVpc]

NotLoaded == NotJson("unread")

\* every content of the configuration file: absent, unreadable, not JSON,
\* or a JSON document (an object holds a vpc value exactly when it has the key)
FileContents ==
    { NotJson("missing"), NotJson("unreadable"), NotJson("malformed") }
    \cup { o \in JsonObjects : ("vpcConfig" \in o.keys) <=> (o.vpc # NoVpc) }
    \cup JsonArrays

\* open(self.config_file) followed by json.load: the exception it raises, or "ok"
LoadError(content) ==
    CASE content.kind = "missing"    -> "FileNotFoundError"
      [] content.kind = "unreadable" -> "PermissionError"
      [] content.kind = "malformed"  -> "JSONDecodeError"
      [] OTHER                       -> "ok"

\* `key not in config` for every key of required_keys: on a dict it tests
\* the keys, on a list it tests the elements
MissingKeys(content) == required_keys \ content.keys

\* config["vpcConfig"] on the loaded document: a dict with the key yields the
\* value, a dict without it raises KeyError, a list raises TypeError
Subscript(content) ==
    CASE content.kind = "array"                                -> "TypeError"
      [] content.kind = "object" /\ "vpcConfig" \notin content.keys -> "KeyError"
      [] OTHER                                                 -> "ok"

\* a deploy() that lacks the `except Exception` clause: every exception
\* but PermissionError leaves deploy() and reaches its caller
DeployHandlerNarrow(exc) == IF exc = "PermissionError" THEN "permission" ELSE "propagated"

\* the except clauses of deploy(): which message an exception ends in
DeployHandler(exc) == IF exc = "PermissionError" THEN "permission" ELSE "failed"

\* results of the remote calls
RoleResults == {"ok", "AccessDenied", "EntityAlreadyExists"}

\* what iam create_role answers: a role name that exists is refused as a
\* duplicate, a new one is created unless the caller lacks the permission
CreateRoleResults(role) ==
    IF role = "absent"
      THEN RoleResults \ {"EntityAlreadyExists"}
      ELSE RoleResults \ {"ok"}

\* the role after a create_role call with the given result
RoleAfter(role, res) == IF res = "ok" THEN "created" ELSE role

ClusterResults == {"ok", "ClientError"}

Statuses == {"CREATING", "ACTIVE", "FAILED"}

DescribeResults == Statuses \cup {"ClientError"}

Call(op, arg, result) == [op |-> op, arg |-> arg, result |-> result]

\* iam_client.create_role of create_iam_role
RoleCall(res) == Call("create_role", "role", res)

\* a create_iam_role whose except clause does not re-raise
RoleRaisesNever(res) == FALSE

\* a create_iam_role that takes an existing role for reusable and goes on
RoleRaisesUnlessExists(res) == res \notin {"ok", "EntityAlreadyExists"}

\* create_iam_role raises the ClientError of a rejected create_role
RoleRaises(res) == res # "ok"

\* a create_eks_cluster whose except clause does not re-raise
ClusterRaisesNever(res) == FALSE

\* create_eks_cluster raises the ClientError of a rejected create_cluster
ClusterRaises(res) == res # "ok"

\* a loop that tests the status the wrong way round
LoopExitsInverted(status) == status # "ACTIVE"

\* the break of the while True loop: if status == "ACTIVE"
LoopExits(status) == status = "ACTIVE"

\* a create_eks_cluster without the test of self.validated
NotValidatedIgnored(v) == FALSE

\* the guard of create_eks_cluster: if not self.validated
NotValidated(v) == ~v

\* the describe_cluster calls of the log
Describes == SelectSeq(calls, LAMBDA c : c.op = "describe_cluster")

DeployInit ==
    /\ pc = "deploy"
    /\ config_file \in FileContents
    /\ validated = FALSE
    /\ loaded = NotLoaded
    /\ calls = <<>>
    /\ outcome = "none"
    /\ iam_role \in {"absent", "foreign"}
    /\ attempt = 1

\* deploy() up to and including validate_config()
ValidateConfig ==
    /\ pc = "deploy"
    /\ loaded' = config_file
    /\ IF LoadError(config_file) # "ok"
         THEN /\ validated' = validated
              /\ outcome' = DeployHandler(LoadError(config_file))
              /\ pc' = "done"
         ELSE IF MissingKeys(config_file) # {}
         THEN /\ validated' = validated
              /\ outcome' = DeployHandler("ValueError")
              /\ pc' = "done"
         ELSE /\ validated' = TRUE
              /\ outcome' = outcome
              /\ pc' = "create_eks_cluster"
    /\ UNCHANGED <<config_file, calls, iam_role, attempt>>
    /\ UNCHANGED <<mainVars, history>>

\* the file is rewritten by another process between validate_config and
\* the second read in create_eks_cluster
FileChange ==
    /\ pc = "create_eks_cluster"
    /\ \E c \in FileContents \ {config_file} : config_file' = c
    /\ UNCHANGED <<pc, validated, loaded, calls, outcome, iam_role, attempt>>
    /\ UNCHANGED <<mainVars, history>>

\* create_eks_cluster(), with the create_iam_role() it calls and the
\* handlers of deploy() for what it raises
CreateEksCluster ==
    /\ pc = "create_eks_cluster"
    /\ IF NotValidated(validated)
         THEN /\ calls' = calls
              /\ iam_role' = iam_role
              /\ outcome' = DeployHandler("RuntimeError")
              /\ pc' = "done"
         ELSE \E role \in CreateRoleResults(iam_role) :
              /\ iam_role' = RoleAfter(iam_role, role)
              /\ IF RoleRaises(role)
                   THEN /\ calls' = Append(calls, RoleCall(role))
                        /\ outcome' = DeployHandler("ClientError")
                        /\ pc' = "done"
                 ELSE IF LoadError(config_file) # "ok"
                   THEN /\ calls' = Append(calls, RoleCall(role))
                        /\ outcome' = DeployHandler(LoadError(config_file))
                        /\ pc' = "done"
                 ELSE IF Subscript(config_file) # "ok"
                   THEN /\ calls' = Append(calls, RoleCall(role))
                        /\ outcome' = DeployHandler(Subscript(config_file))
                        /\ pc' = "done"
                 ELSE \E res \in ClusterResults :
                        /\ calls' = calls \o <<RoleCall(role),
                                               Call("create_cluster", config_file.vpc, res)>>
                        /\ IF ~ClusterRaises(res)
                             THEN /\ outcome' = outcome
                                  /\ pc' = "monitor_cluster_status"
                             ELSE /\ outcome' = DeployHandler("ClientError")
                                  /\ pc' = "done"
    /\ UNCHANGED <<config_file, validated, loaded, attempt>>
    /\ UNCHANGED <<mainVars, history>>

\* one iteration of the while True loop of monitor_cluster_status(), with
\* the handlers of deploy() and its success message
MonitorClusterStatus ==
    /\ pc = "monitor_cluster_status"
    /\ Len(Describes) < MaxPolls
    /\ \E res \in DescribeResults :
         /\ calls' = Append(calls, Call("describe_cluster", "cluster", res))
         /\ IF res = "ClientError"
              THEN /\ outcome' = DeployHandler("ClientError")
                   /\ pc' = "done"
            ELSE IF LoopExits(res)
              THEN /\ outcome' = "success"
                   /\ pc' = "done"
              ELSE /\ outcome' = outcome
                   /\ pc' = pc
    /\ UNCHANGED <<config_file, validated, loaded, iam_role, attempt>>
    /\ UNCHANGED <<mainVars, history>>

\* the script is run again for the same cluster name: a new EKSClusterSetup
\* and a new deploy(), against the same file and the same identity service
Rerun ==
    /\ pc = "done"
    /\ attempt < MaxDeploys
    /\ attempt' = attempt + 1
    /\ pc' = "deploy"
    /\ validated' = FALSE
    /\ loaded' = NotLoaded
    /\ calls' = <<>>
    /\ outcome' = "none"
    /\ UNCHANGED <<config_file, iam_role>>
    /\ UNCHANGED <<mainVars, history>>

DeployNext ==
    \/ ValidateConfig
    \/ FileChange
    \/ CreateEksCluster
    \/ MonitorClusterStatus
    \/ Rerun

\* ------------------------------------------------------------------------
\* __main__ of src/Deploy_EKS_Cluster/deploy_eks_cluster.py
\* ------------------------------------------------------------------------

\* Python values of the configuration, tagged by type
PyNone == [t |-> "None"]

PyStr(s) == [t |-> "str", s |-> s]

PyList(l) == [t |-> "list", l |-> l]

PyInt(n) == [t |-> "int", n |-> n]

\* bool(v) of Python: PyNone, "", [] and 0 are false
Truthy(v) ==
    CASE v.t = "None" -> FALSE
      [] v.t = "str"  -> v.s # ""
      [] v.t = "list" -> v.l # <<>>
      [] v.t = "int"  -> v.n # 0

\* required_keys of load_config
main_required_keys ==
    {"cluster_name", "role_arn", "subnet_ids", "security_group_ids",
     "autoscaling_group_name", "desired_capacity"}

\* the values a key of the JSON file can hold
KeyValues(key) ==
    CASE key \in {"cluster_name", "role_arn", "autoscaling_group_name"}
            -> {PyStr(""), PyStr("x")}
      [] key \in {"subnet_ids", "security_group_ids"}
            -> {PyList(<<>>), PyList(<<"id-1">>)}
      [] key = "desired_capacity"
            -> {PyInt(0 - 1), PyInt(0), PyInt(2)}

\* the JSON objects the file can hold: any subset of the keys, any values
EnvDicts ==
    UNION { { d \in [ks -> UNION { KeyValues(k) : k \in ks }] :
                \A k \in ks : d[k] \in KeyValues(k) } :
            ks \in SUBSET main_required_keys }

EmptyDict == [k \in {} |-> PyNone]

EnvFileContents ==
    { [kind |-> k, dict |-> EmptyDict] : k \in {"missing", "unreadable", "malformed"} }
    \cup { [kind |-> "object", dict |-> d] : d \in EnvDicts }

\* what input().strip() can return
Environments == {"", "dev"}

\* os.getenv of a variable that may be unset
EnvVarValues == {PyNone, PyStr("secret")}

\* config.get(key)
Get(d, key) == IF key \in DOMAIN d THEN d[key] ELSE PyNone

\* the with open / json.load block of load_config: every exception is turned
\* into a warning and leaves config = {}
LoadedDict(content) == IF content.kind = "object" THEN content.dict ELSE EmptyDict

\* config as load_config returns it: the file's dict with api_key and
\* db_password set from the process environment
MergedConfig(content, api_key, db_password) ==
    [k \in DOMAIN LoadedDict(content) \cup {"api_key", "db_password"} |->
        CASE k = "api_key"     -> api_key
          [] k = "db_password" -> db_password
          [] OTHER             -> LoadedDict(content)[k]]

\* the keys the loop over required_keys warns about
InvalidKeys(d) ==
    { key \in main_required_keys : key \notin DOMAIN d \/ ~Truthy(d[key]) }

\* results of the remote calls of the three functions
RemoteResults == {"ok", "error"}

MainInit ==
    /\ main_pc = "load_config"
    /\ environment \in Environments
    /\ env_config_file \in EnvFileContents
    /\ config = EmptyDict
    /\ warned = {}
    /\ main_calls = <<>>
    /\ main_outcome = "none"

\* __main__ up to and including load_config(environment) and the
\* `if not config` test
LoadConfig ==
    /\ main_pc = "load_config"
    /\ IF environment = ""
         THEN /\ config' = config
              /\ warned' = warned
              /\ main_outcome' = "critical"
              /\ main_pc' = "done"
         ELSE \E api_key \in EnvVarValues, db_password \in EnvVarValues :
              /\ config' = MergedConfig(env_config_file, api_key, db_password)
              /\ warned' = InvalidKeys(config')
              /\ IF DOMAIN config' = {}
                   THEN /\ main_outcome' = "critical"
                        /\ main_pc' = "done"
                   ELSE /\ main_outcome' = main_outcome
                        /\ main_pc' = "create_eks_cluster"
    /\ UNCHANGED <<environment, env_config_file, main_calls>>
    /\ UNCHANGED <<deployVars, history>>

\* create_eks_cluster(...) as __main__ calls it
MainCreateEksCluster ==
    /\ main_pc = "create_eks_cluster"
    /\ IF \/ ~Truthy(Get(config, "cluster_name"))
          \/ ~Truthy(Get(config, "role_arn"))
          \/ ~Truthy(Get(config, "subnet_ids"))
          \/ ~Truthy(Get(config, "security_group_ids"))
         THEN /\ main_calls' = main_calls
              /\ main_outcome' = "critical"
              /\ main_pc' = "done"
         ELSE \E res \in RemoteResults :
              /\ main_calls' = Append(main_calls,
                     Call("create_cluster", Get(config, "cluster_name"), res))
              /\ main_outcome' = main_outcome
              /\ main_pc' = "configure_cloudwatch"
    /\ UNCHANGED <<environment, env_config_file, config, warned>>
    /\ UNCHANGED <<deployVars, history>>

\* configure_cloudwatch(cluster_name, "AWS/EKS") as __main__ calls it
MainConfigureCloudwatch ==
    /\ main_pc = "configure_cloudwatch"
    /\ IF ~Truthy(Get(config, "cluster_name")) \/ ~Truthy(PyStr("AWS/EKS"))
         THEN /\ main_calls' = main_calls
              /\ main_outcome' = "critical"
              /\ main_pc' = "done"
         ELSE \E res \in RemoteResults :
              /\ main_calls' = Append(main_calls,
                     Call("put_metric_alarm", Get(config, "cluster_name"), res))
              /\ main_outcome' = main_outcome
              /\ main_pc' = "scale_worker_nodes"
    /\ UNCHANGED <<environment, env_config_file, config, warned>>
    /\ UNCHANGED <<deployVars, history>>

\* scale_worker_nodes(...) as __main__ calls it, and the end of __main__
MainScaleWorkerNodes ==
    /\ main_pc = "scale_worker_nodes"
    /\ IF \/ ~Truthy(Get(config, "autoscaling_group_name"))
          \/ Get(config, "desired_capacity") = PyNone
         THEN /\ main_calls' = main_calls
              /\ main_outcome' = "critical"
         ELSE \E res \in RemoteResults :
              /\ main_calls' = Append(main_calls,
                     Call("set_desired_capacity", Get(config, "desired_capacity"), res))
              /\ main_outcome' = "completed"
    /\ main_pc' = "done"
    /\ UNCHANGED <<environment, env_config_file, config, warned>>
    /\ UNCHANGED <<deployVars, history>>

MainNext ==
    \/ LoadConfig
    \/ MainCreateEksCluster
    \/ MainConfigureCloudwatch
    \/ MainScaleWorkerNodes

\* ------------------------------------------------------------------------
\* The methods of EKSClusterSetup called one by one by a caller other than
\* deploy(): what a method raises reaches the caller
\* ------------------------------------------------------------------------

Event(method, raised, issued) == [method |-> method, raised |-> raised, issued |-> issued]

MethodInit ==
    /\ pc = "caller"
    /\ config_file \in FileContents
    /\ validated = FALSE
    /\ loaded = NotLoaded
    /\ calls = <<>>
    /\ outcome = "none"
    /\ iam_role \in {"absent", "foreign"}
    /\ attempt = 1
    /\ history = <<>>

\* validate_config(): the except clauses print and re-raise
ValidateConfigRaises(content) ==
    IF LoadError(content) # "ok" THEN LoadError(content)
    ELSE IF MissingKeys(content) # {} THEN "ValueError"
    ELSE "none"

\* setup.validate_config()
CallValidateConfig ==
    /\ pc = "caller"
    /\ Len(history) < MaxMethodCalls
    /\ loaded' = config_file
    /\ validated' = (validated \/ ValidateConfigRaises(config_file) = "none")
    /\ history' = Append(history,
                     Event("validate_config", ValidateConfigRaises(config_file), 0))
    /\ UNCHANGED <<pc, config_file, calls, outcome, iam_role, attempt>>
    /\ UNCHANGED mainVars

\* setup.create_iam_role()
CallCreateIamRole ==
    /\ pc = "caller"
    /\ Len(history) < MaxMethodCalls
    /\ \E role \in CreateRoleResults(iam_role) :
         /\ iam_role' = RoleAfter(iam_role, role)
         /\ calls' = Append(calls, RoleCall(role))
         /\ history' = Append(history,
                Event("create_iam_role", IF RoleRaises(role) THEN "ClientError" ELSE "none", 1))
    /\ UNCHANGED <<pc, config_file, validated, loaded, outcome, attempt>>
    /\ UNCHANGED mainVars

\* setup.create_eks_cluster()
CallCreateEksCluster ==
    /\ pc = "caller"
    /\ Len(history) < MaxMethodCalls
    /\ IF NotValidated(validated)
         THEN /\ calls' = calls
              /\ iam_role' = iam_role
              /\ history' = Append(history, Event("create_eks_cluster", "RuntimeError", 0))
         ELSE \E role \in CreateRoleResults(iam_role) :
              /\ iam_role' = RoleAfter(iam_role, role)
              /\ IF RoleRaises(role)
                   THEN /\ calls' = Append(calls, RoleCall(role))
                        /\ history' = Append(history,
                               Event("create_eks_cluster", "ClientError", 1))
                 ELSE IF LoadError(config_file) # "ok"
                   THEN /\ calls' = Append(calls, RoleCall(role))
                        /\ history' = Append(history,
                               Event("create_eks_cluster", LoadError(config_file), 1))
                 ELSE IF Subscript(config_file) # "ok"
                   THEN /\ calls' = Append(calls, RoleCall(role))
                        /\ history' = Append(history,
                               Event("create_eks_cluster", Subscript(config_file), 1))
                 ELSE \E res \in ClusterResults :
                        /\ calls' = calls \o <<RoleCall(role),
                                               Call("create_cluster", config_file.vpc, res)>>
                        /\ history' = Append(history,
                               Event("create_eks_cluster",
                                     IF ClusterRaises(res) THEN "ClientError" ELSE "none", 2))
    /\ UNCHANGED <<pc, config_file, validated, loaded, outcome, attempt>>
    /\ UNCHANGED mainVars

\* the file is rewritten between two method calls
RewriteConfigFile ==
    /\ pc = "caller"
    /\ Len(history) < MaxMethodCalls
    /\ \E c \in FileContents \ {config_file} : config_file' = c
    /\ UNCHANGED <<pc, validated, loaded, calls, outcome, iam_role, attempt, history>>
    /\ UNCHANGED mainVars

MethodNext ==
    \/ CallValidateConfig
    \/ CallCreateIamRole
    \/ CallCreateEksCluster
    \/ RewriteConfigFile

\* ------------------------------------------------------------------------
\* Specifications
\* ------------------------------------------------------------------------

vars == <<deployVars, mainVars, history>>

\* one run of EKSClusterSetup.deploy; the script of the other file is not started
Init == DeployInit /\ MainInit /\ environment = "" /\ env_config_file.kind = "missing" /\ history = <<>>

Next == DeployNext

Spec == Init /\ [][Next]_vars

\* one run of __main__ of deploy_eks_cluster.py; no EKSClusterSetup is deployed
MainSpecInit == MainInit /\ DeployInit /\ config_file.kind = "missing" /\ iam_role = "absent" /\ history = <<>>

MainSpecNext == MainNext

MainSpec == MainSpecInit /\ [][MainSpecNext]_vars

\* a caller invoking the methods of one EKSClusterSetup in any order
MethodSpecInit == MethodInit /\ MainInit /\ environment = "" /\ env_config_file.kind = "missing"

MethodSpecNext == MethodNext

MethodSpec == MethodSpecInit /\ [][MethodSpecNext]_vars

\* ------------------------------------------------------------------------
\* Properties of EKSClusterSetup.deploy (checked under Spec)
\* ------------------------------------------------------------------------

\* the statuses and errors the describe_cluster calls returned, in order
Observations == [i \in 1..Len(Describes) |-> Describes[i].result]

\* the number of describe_cluster calls that raised
PollErrors == Cardinality({ i \in 1..Len(Observations) : Observations[i] = "ClientError" })

\* C1: the remote calls occur in stage order. No call is issued before
\* validation succeeded, every create_cluster call is preceded by a
\* successful create_role call, and every describe_cluster call is preceded
\* by a successful create_cluster call.
C1_StageOrder ==
    /\ calls # <<>> => validated /\ LoadError(loaded) = "ok"
    /\ \A i \in 1..Len(calls) :
         /\ calls[i].op = "create_role" => i = 1
         /\ calls[i].op = "create_cluster" =>
              \E j \in 1..(i - 1) : calls[j].op = "create_role" /\ calls[j].result = "ok"
         /\ calls[i].op = "describe_cluster" =>
              \E j \in 1..(i - 1) : calls[j].op = "create_cluster" /\ calls[j].result = "ok"

\* a run that went through all three stages
C1_Witness ==
    /\ Len(calls) >= 3
    /\ calls[1].op = "create_role"
    /\ calls[2].op = "create_cluster"
    /\ calls[3].op = "describe_cluster"

C3_ActiveStopsPolling ==
    /\ (Observations # <<>> /\ \A i \in 1..Len(Observations) : Observations[i] = "CREATING")
          => pc = "monitor_cluster_status" /\ outcome = "none"
    /\ \A k \in 1..Len(Observations) :
          (Observations[k] = "ACTIVE" /\ \A i \in 1..(k - 1) : Observations[i] = "CREATING")
             => /\ Len(Observations) = k
                /\ calls[Len(calls)] = Call("describe_cluster", "cluster", "ACTIVE")
                /\ pc = "done"
                /\ outcome = "success"

\* the status sequence CREATING, CREATING, ACTIVE has been observed
C3_Witness ==
    /\ Observations = <<"CREATING", "CREATING", "ACTIVE">>
    /\ outcome = "success"

\* C4: an observation of FAILED is the last describe_cluster call of the
\* run and deploy reports a failure.
C4_FailedStopsPolling ==
    \A k \in 1..Len(Observations) :
        Observations[k] = "FAILED"
           => /\ Len(Observations) = k
              /\ pc = "done"
              /\ outcome = "failed"

\* C5: the polling loop is bounded; with the deadline of 3 attempts of the
\* specification's example no 4th describe_cluster call is issued.
C5_PollingBounded == Len(Describes) <= 3

\* C6: when create_role is rejected, it is the only remote call of the run
\* (no create_cluster, no describe_cluster) and deploy reports a failure.
C6_RoleFailureStops ==
    (\E i \in 1..Len(calls) : calls[i].op = "create_role" /\ calls[i].result # "ok")
        => /\ \A i \in 1..Len(calls) : calls[i].op \notin {"create_cluster", "describe_cluster"}
           /\ pc = "done"
           /\ outcome = "failed"

\* a run in which the identity service denied the permission
C6_Witness ==
    /\ calls = <<RoleCall("AccessDenied")>>
    /\ pc = "done"

\* C7: a single failed describe_cluster call does not end the deployment;
\* a polling error is surfaced only after more than one failed call.
C7_PollErrorRetried ==
    (PollErrors = 1) => ~(pc = "done" /\ outcome = "failed")

\* C8: the resourcesVpcConfig of every create_cluster call is the vpcConfig
\* of the content that validate_config validated.
C8_SentConfigIsValidated ==
    \A i \in 1..Len(calls) :
        calls[i].op = "create_cluster" => calls[i].arg = loaded.vpc

\* ------------------------------------------------------------------------
\* Properties of __main__ of deploy_eks_cluster.py (checked under MainSpec)
\* ------------------------------------------------------------------------

\* C9: a failed stage short-circuits the later stages: a remote call that
\* failed is the last remote call of the run.
C9_FailureShortCircuits ==
    \A i \in 1..Len(main_calls) :
        main_calls[i].result = "error" => i = Len(main_calls)

\* the keys of the six that the file's object lacks or holds empty
MissingOrEmpty(content) ==
    { key \in {"cluster_name", "role_arn", "subnet_ids", "security_group_ids",
               "autoscaling_group_name", "desired_capacity"} :
        \/ key \notin DOMAIN LoadedDict(content)
        \/ LoadedDict(content)[key] \in {PyStr(""), PyList(<<>>)} }

\* C10: when one of the six required keys is missing or empty, no remote
\* call is issued and the run ends in a reported failure.
C10_NoCallOnMissingKey ==
    (main_pc # "load_config" /\ environment # "" /\ MissingOrEmpty(env_config_file) # {})
        => /\ main_calls = <<>>
           /\ main_pc = "done" => main_outcome = "critical"

\* C12: a desired_capacity below 0 is rejected before any remote call, so no
\* remote call is issued for such a configuration and set_desired_capacity
\* never carries a negative value.
C12_NegativeCapacityRejected ==
    /\ (/\ main_pc # "load_config"
        /\ environment # ""
        /\ "desired_capacity" \in DOMAIN LoadedDict(env_config_file)
        /\ LoadedDict(env_config_file)["desired_capacity"].n < 0)
          => main_calls = <<>>
    /\ \A i \in 1..Len(main_calls) :
          main_calls[i].op = "set_desired_capacity" => main_calls[i].arg.n >= 0

\* C14: deploy reports success only when this run's validation succeeded,
\* create_role and create_cluster succeeded and the last describe_cluster
\* call observed ACTIVE; a run that ended in any other way (a stage raised)
\* has reported a failure, and no exception leaves deploy.
C14_SuccessOnlyWhenActive ==
    /\ outcome \in {"none", "success", "failed", "permission"}
    /\ outcome = "success" =>
          /\ pc = "done"
          /\ validated
          /\ loaded.kind \in {"object", "array"}
          /\ {"vpcConfig", "nodeRoleArn", "subnets"} \subseteq loaded.keys
          /\ Len(calls) >= 3
          /\ calls[1] = Call("create_role", "role", "ok")
          /\ calls[2].op = "create_cluster" /\ calls[2].result = "ok"
          /\ calls[Len(calls)] = Call("describe_cluster", "cluster", "ACTIVE")
    /\ (pc = "done" /\ (calls = <<>> \/ calls[Len(calls)].result # "ACTIVE"))
          => outcome \in {"failed", "permission"}
    /\ pc # "done" => outcome = "none"

\* a run that reported success
C14_Witness ==
    /\ outcome = "success"
    /\ pc = "done"

\* C11: when create_role is refused because the role already exists, the
\* run ends in a reported failure with that call as its only remote call
\* (no create_cluster), and no run issues a call other than create_role,
\* create_cluster and describe_cluster (no delete, no rollback), so the
\* existing role is still there.
C11_AlreadyExistsSurfaced ==
    /\ (\E i \in 1..Len(calls) : calls[i] = Call("create_role", "role", "EntityAlreadyExists"))
          => /\ Len(calls) = 1
             /\ pc = "done"
             /\ outcome = "failed"
             /\ iam_role # "absent"
    /\ \A i \in 1..Len(calls) :
          calls[i].op \in {"create_role", "create_cluster", "describe_cluster"}

\* a second run that was refused the role an earlier run had created
C11_Witness ==
    /\ attempt = 2
    /\ iam_role = "created"
    /\ calls = <<Call("create_role", "role", "EntityAlreadyExists")>>
    /\ pc = "done"

\* ------------------------------------------------------------------------
\* Properties of the methods called in any order (checked under MethodSpec)
\* ------------------------------------------------------------------------

\* validate_config returned without raising in one of the first n method calls
ValidatedBefore(n) ==
    \E j \in 1..n : history[j].method = "validate_config" /\ history[j].raised = "none"

\* C13: a create_eks_cluster call issues a remote call only if an earlier
\* validate_config call on the instance returned successfully; without one
\* it raises RuntimeError and issues no remote call.
C13_RemoteCallNeedsValidation ==
    /\ \A i \in 1..Len(history) :
          history[i].method = "create_eks_cluster" =>
             /\ history[i].issued > 0 => ValidatedBefore(i - 1)
             /\ ~ValidatedBefore(i - 1) =>
                   history[i].raised = "RuntimeError" /\ history[i].issued = 0
    /\ (\A i \in 1..Len(history) : history[i].method # "create_iam_role")
          => (calls # <<>> => ValidatedBefore(Len(history)))

\* create_eks_cluster refused before the validation and at work after it
C13_Witness ==
    /\ Len(history) = 3
    /\ history[1] = Event("create_eks_cluster", "RuntimeError", 0)
    /\ history[2] = Event("validate_config", "none", 0)
    /\ history[3] = Event("create_eks_cluster", "none", 2)
    /\ Len(calls) = 2

====
